---- MODULE Spec2Model ----
(***************************************************************************)
(* Model of the Wolf of Wall Street.site backend (src/main.py): the        *)
(* session-based authentication (signup, login, require_auth) and the      *)
(* protected endpoints built on it (/me, /analysis, /watchlist, /chat),    *)
(* over the four MongoDB collections user, session, watchlistitem and      *)
(* chatmessage.                                                            *)
(*                                                                         *)
(* FastAPI runs the synchronous handlers on a thread pool, so requests     *)
(* interleave between their store accesses.  Every action below is one     *)
(* store access of one request together with the local computation that    *)
(* precedes it; the arrival of a request is merged with its first store    *)
(* access, and the last store access with the sending of the response.     *)
(*                                                                         *)
(* database.py is not among the sources: create_document is modelled from  *)
(* the specification (a plain insert that returns the new id as a string,  *)
(* with no uniqueness constraint in the store).  Fields no handler reads   *)
(* back (the users' and items' timestamps, avatar_url, a session's _id)    *)
(* are left out of the documents.  secrets.token_urlsafe(32) is a random   *)
(* draw: any token can come out, one already stored included.              *)
(*                                                                         *)
(* Text values the code inspects (the Authorization header) are sequences  *)
(* of atoms: "Bearer", " " and token texts are atoms.  An ObjectId is the  *)
(* record [oid |-> n]; its string form is [fmt |-> "hex24", val |-> n].    *)
(***************************************************************************)
EXTENDS Integers, Sequences, FiniteSets, TLC

\* ------------------------------------------------------------------ bounds

MaxSessions == 2
MaxItems == 1
MaxChats == 1
MaxTicks == 1
MaxDocs == 5

\* ------------------------------------------------------ program constants

\* timedelta(days=7), in milliseconds
SevenDays == 604800000

\* the worker threads of the pool, in the order the pool hands out requests
Workers == <<"w1", "w2">>
Threads == {Workers[i] : i \in 1..Len(Workers)}

Tokens == {<<"tokA">>, <<"tokB">>}

None == [none |-> TRUE]

MaxClock == SevenDays + MaxTicks
ClockSteps == {SevenDays}

\* ------------------------------------------------------------- utilities

Min(S) == CHOOSE x \in S : \A y \in S : x <= y

\* sha256(password.encode()).hexdigest(), tabulated on Passwords
hash_password(password) ==
    CASE password = "wolf123" ->
           "0f289b1a01c1b0324866d20ddbd3f72c3767444e5109253dd2cb1f52c4535dc3"
      [] password = "wrong" ->
           "8810ad581e59f2bc3928b261707a71308f7e139eb04820366dc4d5c18d980225"

\* str.upper(), tabulated on the symbols in use
Upper(s) ==
    CASE s = "aapl" -> "AAPL"
      [] s = "tsla" -> "TSLA"
      [] s = "msft" -> "MSFT"
      [] s = "btc" -> "BTC"
      [] s = "eth" -> "ETH"
      [] OTHER -> s

\* str(ObjectId)
IdStr(o) == [fmt |-> "hex24", val |-> o.oid]

\* a path or field string that is no 24-digit hex string
BadIdStr == [fmt |-> "other", val |-> 0]

\* ObjectId(s): raises bson.errors.InvalidId unless s is 24 hex digits
ValidOid(s) == s.fmt = "hex24"
ObjectId(s) == [oid |-> s.val]

\* a MongoDB filter document {field: value, ...} matches a document
Matches(doc, filter) ==
    \A k \in DOMAIN filter : k \in DOMAIN doc /\ doc[k] = filter[k]

\* collection.find_one(filter): the first document matching, or None
FindOne(coll, filter) ==
    LET I == {i \in 1..Len(coll) : Matches(coll[i], filter)}
    IN IF I = {} THEN None ELSE coll[Min(I)]

\* collection.find(filter): the documents matching, in order
Find(coll, filter) ==
    LET Test(doc) == Matches(doc, filter)
    IN SelectSeq(coll, Test)

\* collection.delete_one(filter): without the first document matching
DeleteOne(coll, filter) ==
    LET I == {i \in 1..Len(coll) : Matches(coll[i], filter)}
    IN IF I = {} THEN coll
       ELSE SubSeq(coll, 1, Min(I) - 1) \o SubSeq(coll, Min(I) + 1, Len(coll))

\* str.startswith(prefix)
StartsWith(s, prefix) ==
    /\ Len(s) >= Len(prefix)
    /\ SubSeq(s, 1, Len(prefix)) = prefix

\* s.split(" ", 1)[1], for s holding a space
AfterFirstSpace(s) ==
    LET k == Min({i \in 1..Len(s) : s[i] = " "})
    IN SubSeq(s, k + 1, Len(s))

HTTPException(status_code, detail) ==
    [status |-> status_code, detail |-> detail]

Ok(body) == [status |-> 200, body |-> body]

\* ------------------------------------------------------------------ state

VARIABLES
    user,           \* db["user"]: sequence of documents, in insertion order
    session,        \* db["session"]
    watchlistitem,  \* db["watchlistitem"]
    chatmessage,    \* db["chatmessage"]
    nextOid,        \* the next ObjectId the store assigns
    clock,          \* datetime.now(timezone.utc), in milliseconds
    thread,         \* per worker thread: the request it runs and its locals
    response,       \* what the last step sent to a client, if anything
    signedUp        \* history: the emails whose signup has completed

vars == <<user, session, watchlistitem, chatmessage, nextOid, clock, thread,
          response, signedUp>>

Idle == [pc |-> "idle"]
NoResponse == [op |-> "none"]

Init ==
    /\ user = <<>>
    /\ session = <<>>
    /\ watchlistitem = <<>>
    /\ chatmessage = <<>>
    /\ nextOid = 1
    /\ clock = 0
    /\ thread = [t \in Threads |-> Idle]
    /\ response = NoResponse
    /\ signedUp = {}

NoWrites == [users |-> 0, sessions |-> 0]

\* the pool hands a new request to its first idle worker
Accepts(t) ==
    \E i \in 1..Len(Workers) :
        /\ Workers[i] = t
        /\ thread[t].pc = "idle"
        /\ \A j \in 1..(i - 1) : thread[Workers[j]].pc # "idle"

\* the last step of thread t's request: the response is sent, the thread is free
Send(t, result, wrote, lookups) ==
    /\ response' = [op |-> thread[t].op, req |-> thread[t].req, result |-> result,
                    wrote |-> wrote, lookups |-> lookups]
    /\ thread' = [thread EXCEPT ![t] = Idle]

\* a request answered by its first step: the thread never leaves idle
Reject(op, req, result, lookups) ==
    /\ response' = [op |-> op, req |-> req, result |-> result,
                    wrote |-> NoWrites, lookups |-> lookups]
    /\ UNCHANGED thread

\* a step that sends nothing
Continue(t, locals) ==
    /\ thread' = [thread EXCEPT ![t] = locals]
    /\ response' = NoResponse

\* documents the requests in flight are still to insert
PendingUsers == Cardinality({t \in Threads : thread[t].pc = "signup_create"})
PendingSessions ==
    Cardinality({t \in Threads :
                    thread[t].pc \in {"signup_create", "signup_issue", "login_issue"}})
PendingItems ==
    Cardinality({t \in Threads :
                    /\ thread[t].pc \in {"auth_user", "body"}
                    /\ thread[t].op = "add_watchlist"})
PendingChats ==
    Cardinality({t \in Threads :
                    /\ thread[t].pc \in {"auth_user", "body", "chat_reply"}
                    /\ thread[t].op = "chat"})

\* ObjectIds the requests in flight are still to draw
PendingDocs ==
    PendingUsers + PendingItems + 2 * PendingChats
    - Cardinality({t \in Threads : thread[t].pc = "chat_reply"})

\* the bounds leave room for n more documents with an ObjectId
RoomForDocs(n) == (nextOid - 1) + PendingDocs + n <= MaxDocs

\* create_document(collection_name, data): insert with a fresh _id, return str(_id)
create_document(coll, data) ==
    Append(coll, [k \in DOMAIN data \cup {"_id"} |->
                    IF k = "_id" THEN [oid |-> nextOid] ELSE data[k]])

\* User(name=..., email=..., hashed_password=...): plan defaults to "free"
User(name, email, hashed_password) ==
    [name |-> name, email |-> email, hashed_password |-> hashed_password,
     plan |-> "free"]

\* the time that passes between two datetime.now() calls of one statement
NowGaps == {0, 1}

\* the session document signup and login insert, the second now() gap later
NewSession(user_id, token, gap) ==
    [user_id |-> user_id, token |-> token, created_at |-> clock,
     expires_at |-> (clock + gap) + SevenDays]

\* ------------------------------------------------------------ /auth/signup

SignupRequests ==
    { [name |-> "Ada", email |-> "ada@example.com", password |-> "wolf123"],
      [name |-> "Bob", email |-> "bob@example.com", password |-> "wolf123"],
      [name |-> "Eve", email |-> "ada@example.com", password |-> "wrong"] }

\* a duplicate check that looks the name up instead of the email
ExistingUserByName(payload) == FindOne(user, [name |-> payload.name])

\* existing = db["user"].find_one({"email": payload.email})
ExistingUser(payload) == FindOne(user, [email |-> payload.email])

\* a signup that creates the user before it checks for a duplicate
SignupFindCreatesFirst(t, payload) ==
    /\ Accepts(t)
    /\ RoomForDocs(1)
    /\ LET doc == User(payload.name, payload.email, hash_password(payload.password))
       IN /\ user' = create_document(user, doc)
          /\ nextOid' = nextOid + 1
          /\ IF ExistingUser(payload) # None
             THEN Reject("signup", payload,
                         HTTPException(400, "Email already registered"), 0)
             ELSE /\ Len(session) + PendingSessions < MaxSessions
                  /\ Continue(t, [pc |-> "signup_issue", op |-> "signup",
                                  req |-> payload, doc |-> doc,
                                  user_id |-> IdStr([oid |-> nextOid]),
                                  wrote |-> [users |-> 1, sessions |-> 0]])
    /\ UNCHANGED <<session, watchlistitem, chatmessage, clock, signedUp>>

\* signup, to the duplicate check
SignupFind(t, payload) ==
    /\ Accepts(t)
    /\ LET existing == ExistingUser(payload)
       IN IF existing # None
          THEN Reject("signup", payload,
                      HTTPException(400, "Email already registered"), 0)
          ELSE /\ RoomForDocs(1)
               /\ Len(session) + PendingSessions < MaxSessions
               /\ Continue(t, [pc |-> "signup_create", op |-> "signup",
                               req |-> payload, wrote |-> NoWrites])
    /\ UNCHANGED <<user, session, watchlistitem, chatmessage, nextOid, clock,
                   signedUp>>

\* signup: user = User(...); user_id = create_document("user", user)
SignupCreate(t) ==
    /\ thread[t].pc = "signup_create"
    /\ LET payload == thread[t].req
           doc == User(payload.name, payload.email, hash_password(payload.password))
       IN /\ user' = create_document(user, doc)
          /\ nextOid' = nextOid + 1
          /\ Continue(t, [pc |-> "signup_issue", op |-> "signup", req |-> payload,
                          doc |-> doc, user_id |-> IdStr([oid |-> nextOid]),
                          wrote |-> [thread[t].wrote EXCEPT !.users = @ + 1]])
    /\ UNCHANGED <<session, watchlistitem, chatmessage, clock, signedUp>>

\* the public view signup returns
SignupView(user_id, doc) ==
    [id |-> user_id, name |-> doc.name, email |-> doc.email]

\* signup: token = secrets.token_urlsafe(32); insert the session; return
SignupIssue(t) ==
    /\ thread[t].pc = "signup_issue"
    /\ \E token \in Tokens, gap \in NowGaps :
          /\ clock + gap <= MaxClock
          /\ session' = Append(session, NewSession(thread[t].user_id, token, gap))
          /\ clock' = clock + gap
          /\ Send(t, Ok([token |-> token,
                         user |-> SignupView(thread[t].user_id, thread[t].doc)]),
                  [thread[t].wrote EXCEPT !.sessions = @ + 1], 0)
    /\ signedUp' = signedUp \cup {thread[t].req.email}
    /\ UNCHANGED <<user, watchlistitem, chatmessage, nextOid>>

\* ------------------------------------------------------------- /auth/login

LoginRequests ==
    { [email |-> "ada@example.com", password |-> "wolf123"],
      [email |-> "ada@example.com", password |-> "wrong"],
      [email |-> "bob@example.com", password |-> "wrong"] }

\* login, to the credential check
LoginFind(t, payload) ==
    /\ Accepts(t)
    /\ LET usr == FindOne(user, [email |-> payload.email])
       IN IF usr = None \/ usr.hashed_password # hash_password(payload.password)
          THEN Reject("login", payload,
                      HTTPException(401, "Invalid credentials"), 0)
          ELSE /\ Len(session) + PendingSessions < MaxSessions
               /\ Continue(t, [pc |-> "login_issue", op |-> "login",
                               req |-> payload, user |-> usr, wrote |-> NoWrites])
    /\ UNCHANGED <<user, session, watchlistitem, chatmessage, nextOid, clock,
                   signedUp>>

\* a view that hands the stored document's credential digest out
LoginViewLeaky(usr) ==
    [id |-> IdStr(usr._id), name |-> usr.name, email |-> usr.email,
     hashed_password |-> usr.hashed_password]

\* the public view login returns
LoginView(usr) ==
    [id |-> IdStr(usr._id), name |-> usr.name, email |-> usr.email]

\* login: token = secrets.token_urlsafe(32); insert the session; return
LoginIssue(t) ==
    /\ thread[t].pc = "login_issue"
    /\ \E token \in Tokens, gap \in NowGaps :
          /\ clock + gap <= MaxClock
          /\ session' = Append(session,
                               NewSession(IdStr(thread[t].user._id), token, gap))
          /\ clock' = clock + gap
          /\ Send(t, Ok([token |-> token, user |-> LoginView(thread[t].user)]),
                  [thread[t].wrote EXCEPT !.sessions = @ + 1], 0)
    /\ UNCHANGED <<user, watchlistitem, chatmessage, nextOid, signedUp>>

\* ------------------------------------------------------------ require_auth

Absent == [present |-> FALSE, value |-> <<>>]
Header(v) == [present |-> TRUE, value |-> v]
Bearer(token) == Header(<<"Bearer", " ">> \o token)

\* Authorization headers: none, "", a bare token, a lower-case scheme, the
\* scheme alone, the scheme with an empty token, well-formed ones, and one
\* with two spaces (its token is " tokA")
Headers ==
    { Absent, Header(<<>>), Header(<<"tokA">>), Header(<<"bearer", " ", "tokA">>),
      Header(<<"Bearer">>), Header(<<"Bearer", " ">>),
      Bearer(<<"tokA">>), Bearer(<<"tokB">>), Bearer(<<" ", "tokA">>) }

\* a scheme check that ignores case
MissingTokenAnyCase(authorization) ==
    \/ ~authorization.present
    \/ authorization.value = <<>>
    \/ ~(\/ StartsWith(authorization.value, <<"Bearer", " ">>)
         \/ StartsWith(authorization.value, <<"bearer", " ">>))

\* not authorization or not authorization.startswith("Bearer ")
MissingToken(authorization) ==
    \/ ~authorization.present
    \/ authorization.value = <<>>
    \/ ~StartsWith(authorization.value, <<"Bearer", " ">>)

\* require_auth, to the session lookup; room: the bounds leave room for what
\* the operation inserts
RequireAuthSession(t, op, req, room) ==
    /\ Accepts(t)
    /\ IF MissingToken(req.authorization)
       THEN Reject(op, req, HTTPException(401, "Missing token"), 0)
       ELSE LET token == AfterFirstSpace(req.authorization.value)
                sess == FindOne(session, [token |-> token])
            IN IF sess = None
               THEN Reject(op, req, HTTPException(401, "Invalid token"), 1)
               ELSE /\ room
                    /\ Continue(t, [pc |-> "auth_user", op |-> op, req |-> req,
                                    session |-> sess])
    /\ UNCHANGED <<user, session, watchlistitem, chatmessage, nextOid, clock,
                   signedUp>>

\* require_auth: user = db["user"].find_one({"_id": ObjectId(session["user_id"])})
RequireAuthUser(t) ==
    /\ thread[t].pc = "auth_user"
    /\ LET usr == FindOne(user, [_id |-> ObjectId(thread[t].session.user_id)])
       IN IF usr = None
          THEN Send(t, HTTPException(401, "User not found"), NoWrites, 1)
          ELSE Continue(t, [pc |-> "body", op |-> thread[t].op,
                            req |-> thread[t].req, session |-> thread[t].session,
                            user |-> usr])
    /\ UNCHANGED <<user, session, watchlistitem, chatmessage, nextOid, clock,
                   signedUp>>

InBody(t, op) == thread[t].pc = "body" /\ thread[t].op = op

\* ------------------------------------------------------------------- /me

MeStart(t, authorization) ==
    RequireAuthSession(t, "me", [authorization |-> authorization], TRUE)

MeView(u) ==
    [id |-> IdStr(u._id), name |-> u.name, email |-> u.email, plan |-> u.plan]

me(t) ==
    /\ InBody(t, "me")
    /\ Send(t, Ok(MeView(thread[t].user)), NoWrites, 1)
    /\ UNCHANGED <<user, session, watchlistitem, chatmessage, nextOid, clock,
                   signedUp>>

\* ------------------------------------------------------------- /analysis

AnalysisRequests ==
    { [user_id |-> "u", symbol |-> "aapl", timeframe |-> "1D",
       strategy |-> "SMA", lookback |-> 50] }

AnalyzeStart(t, authorization, req) ==
    RequireAuthSession(t, "analyze",
                       [authorization |-> authorization, body |-> req], TRUE)

\* the prices are random: either signal can come out; sma and last are
\* real numbers the model leaves out; confidence is in hundredths
analyze(t) ==
    /\ InBody(t, "analyze")
    /\ \E signal \in {"buy", "sell"} :
          Send(t, Ok([symbol |-> Upper(thread[t].req.body.symbol),
                      timeframe |-> thread[t].req.body.timeframe,
                      strategy |-> thread[t].req.body.strategy,
                      signal |-> signal,
                      confidence |-> IF signal = "buy" THEN 62 ELSE 55]),
               NoWrites, 1)
    /\ UNCHANGED <<user, session, watchlistitem, chatmessage, nextOid, clock,
                   signedUp>>

\* ------------------------------------------------------------ /watchlist

Text(s) == [str |-> s]

GetWatchlistStart(t, authorization) ==
    RequireAuthSession(t, "get_watchlist", [authorization |-> authorization], TRUE)

ItemView(i) == [id |-> IdStr(i._id), symbol |-> i.symbol, note |-> i.note]

get_watchlist(t) ==
    /\ InBody(t, "get_watchlist")
    /\ LET user_id == IdStr(thread[t].user._id)
           items == Find(watchlistitem, [user_id |-> user_id])
       IN Send(t, Ok([k \in 1..Len(items) |-> ItemView(items[k])]), NoWrites, 1)
    /\ UNCHANGED <<user, session, watchlistitem, chatmessage, nextOid, clock,
                   signedUp>>

WatchlistCreates ==
    { [symbol |-> "aapl", note |-> None],
      [symbol |-> "TSLA", note |-> Text("watch")] }

AddWatchlistStart(t, authorization, item) ==
    RequireAuthSession(t, "add_watchlist",
                       [authorization |-> authorization, item |-> item],
                       /\ Len(watchlistitem) + PendingItems < MaxItems
                       /\ RoomForDocs(1))

WatchlistItem(user_id, symbol, note) ==
    [user_id |-> user_id, symbol |-> symbol, note |-> note]

add_watchlist(t) ==
    /\ InBody(t, "add_watchlist")
    /\ LET item == thread[t].req.item
           doc == WatchlistItem(IdStr(thread[t].user._id), Upper(item.symbol),
                                item.note)
       IN /\ watchlistitem' = create_document(watchlistitem, doc)
          /\ nextOid' = nextOid + 1
          /\ Send(t, Ok([id |-> IdStr([oid |-> nextOid]), symbol |-> doc.symbol,
                         note |-> doc.note]), NoWrites, 1)
    /\ UNCHANGED <<user, session, chatmessage, clock, signedUp>>

\* the path parameter: the string of an ObjectId the store has assigned, of
\* one it has not, or a string that is no ObjectId
ItemIds == {IdStr([oid |-> n]) : n \in 1..nextOid} \cup {BadIdStr}

DeleteWatchlistStart(t, authorization, item_id) ==
    RequireAuthSession(t, "delete_watchlist",
                       [authorization |-> authorization, item_id |-> item_id],
                       TRUE)

\* ObjectId(item_id) raises InvalidId, which no handler catches: FastAPI
\* answers 500
delete_watchlist(t) ==
    /\ InBody(t, "delete_watchlist")
    /\ LET item_id == thread[t].req.item_id
       IN IF ~ValidOid(item_id)
          THEN /\ Send(t, HTTPException(500, "Internal Server Error"), NoWrites, 1)
               /\ UNCHANGED watchlistitem
          ELSE LET left == DeleteOne(watchlistitem,
                                     [_id |-> ObjectId(item_id),
                                      user_id |-> IdStr(thread[t].user._id)])
                   deleted_count == Len(watchlistitem) - Len(left)
               IN /\ watchlistitem' = left
                  /\ IF deleted_count = 0
                     THEN Send(t, HTTPException(404, "Item not found"), NoWrites, 1)
                     ELSE Send(t, Ok([ok |-> TRUE]), NoWrites, 1)
    /\ UNCHANGED <<user, session, chatmessage, nextOid, clock, signedUp>>

\* ----------------------------------------------------------------- /chat

\* a message is the set of the keywords its lower-cased text contains
ChatPayloads == { [message |-> {}], [message |-> {"buy", "btc"}] }

ChatStart(t, authorization, payload) ==
    RequireAuthSession(t, "chat",
                       [authorization |-> authorization, payload |-> payload],
                       /\ Len(chatmessage) + 2 * PendingChats + 2 <= 2 * MaxChats
                       /\ RoomForDocs(2))

ChatMessage(user_id, role, content) ==
    [user_id |-> user_id, role |-> role, content |-> content]

TradeWords == {"buy", "sell", "entry", "exit"}
ChatSymbols == <<"aapl", "tsla", "msft", "btc", "eth">>

\* the rule-based reply
Reply(text) ==
    LET hits == {k \in 1..Len(ChatSymbols) : ChatSymbols[k] \in text}
    IN IF hits # {}
       THEN <<"Quick take on ", Upper(ChatSymbols[Min(hits)]),
              ": trend is up on daily, wait for pullback to 20EMA for better risk/reward.">>
       ELSE IF text \cap TradeWords # {}
       THEN <<"General guidance only: manage risk, set stops, and size positions responsibly.">>
       ELSE <<"I'm your trading copilot. Ask me about a symbol like AAPL or BTC.">>

\* chat: store the user's message
ChatStoreUser(t) ==
    /\ InBody(t, "chat")
    /\ chatmessage' = create_document(chatmessage,
                          ChatMessage(IdStr(thread[t].user._id), "user",
                                      thread[t].req.payload.message))
    /\ nextOid' = nextOid + 1
    /\ Continue(t, [thread[t] EXCEPT !.pc = "chat_reply"])
    /\ UNCHANGED <<user, session, watchlistitem, clock, signedUp>>

\* chat: compute the reply, store it, return it
ChatStoreReply(t) ==
    /\ thread[t].pc = "chat_reply"
    /\ LET reply == Reply(thread[t].req.payload.message)
       IN /\ chatmessage' = create_document(chatmessage,
                                ChatMessage(IdStr(thread[t].user._id), "assistant",
                                            reply))
          /\ Send(t, Ok([reply |-> reply]), NoWrites, 1)
    /\ nextOid' = nextOid + 1
    /\ UNCHANGED <<user, session, watchlistitem, clock, signedUp>>

\* ---------------------------------------------------------------- clock

\* the wall clock advances
Tick ==
    /\ \E d \in ClockSteps :
          /\ clock + d <= MaxClock
          /\ clock' = clock + d
    /\ response' = NoResponse
    /\ UNCHANGED <<user, session, watchlistitem, chatmessage, nextOid, thread,
                   signedUp>>

\* ------------------------------------------------------- specifications

\* The clients' workloads.  The handlers are the same in all four; what
\* differs is which requests the clients send, whether the requests overlap
\* and whether the clock advances on its own.

Sequential == {Workers[1]}

WellFormedHeaders == {Absent, Bearer(<<"tokA">>), Bearer(<<"tokB">>)}

\* signup, login and /me, two requests at a time
Next ==
    \/ \E t \in Threads, payload \in SignupRequests : SignupFind(t, payload)
    \/ \E t \in Threads : SignupCreate(t)
    \/ \E t \in Threads : SignupIssue(t)
    \/ \E t \in Threads, payload \in LoginRequests : LoginFind(t, payload)
    \/ \E t \in Threads : LoginIssue(t)
    \/ \E t \in Threads, h \in WellFormedHeaders : MeStart(t, h)
    \/ \E t \in Threads : RequireAuthUser(t)
    \/ \E t \in Threads : me(t)

Spec == Init /\ [][Next]_vars

\* signup, login and /me, one request at a time, while the clock advances
NextClock ==
    \/ \E t \in Sequential, payload \in SignupRequests : SignupFind(t, payload)
    \/ \E t \in Sequential : SignupCreate(t)
    \/ \E t \in Sequential : SignupIssue(t)
    \/ \E t \in Sequential, payload \in LoginRequests : LoginFind(t, payload)
    \/ \E t \in Sequential : LoginIssue(t)
    \/ \E t \in Sequential, h \in WellFormedHeaders : MeStart(t, h)
    \/ \E t \in Sequential : RequireAuthUser(t)
    \/ \E t \in Sequential : me(t)
    \/ Tick

SpecClock == Init /\ [][NextClock]_vars

\* one user signs up; every protected operation, with every header, one
\* request at a time
GuardSignups ==
    { [name |-> "Ada", email |-> "ada@example.com", password |-> "wolf123"] }

GuardItems == { [symbol |-> "aapl", note |-> None] }
GuardItemIds == { BadIdStr, IdStr([oid |-> 2]) }
GuardChats == { [message |-> {"buy", "btc"}] }

NextGuard ==
    \/ \E t \in Sequential, payload \in GuardSignups : SignupFind(t, payload)
    \/ \E t \in Sequential : SignupCreate(t)
    \/ \E t \in Sequential : SignupIssue(t)
    \/ \E t \in Sequential, h \in Headers : MeStart(t, h)
    \/ \E t \in Sequential, h \in Headers, req \in AnalysisRequests :
          AnalyzeStart(t, h, req)
    \/ \E t \in Sequential, h \in Headers : GetWatchlistStart(t, h)
    \/ \E t \in Sequential, h \in Headers, item \in GuardItems :
          AddWatchlistStart(t, h, item)
    \/ \E t \in Sequential, h \in Headers, item_id \in GuardItemIds :
          DeleteWatchlistStart(t, h, item_id)
    \/ \E t \in Sequential, h \in Headers, payload \in GuardChats :
          ChatStart(t, h, payload)
    \/ \E t \in Sequential : RequireAuthUser(t)
    \/ \E t \in Sequential : me(t)
    \/ \E t \in Sequential : analyze(t)
    \/ \E t \in Sequential : get_watchlist(t)
    \/ \E t \in Sequential : add_watchlist(t)
    \/ \E t \in Sequential : delete_watchlist(t)
    \/ \E t \in Sequential : ChatStoreUser(t)
    \/ \E t \in Sequential : ChatStoreReply(t)

SpecGuard == Init /\ [][NextGuard]_vars

\* two users sign up and work on their watchlists, one request at a time
WatchlistSignups ==
    { [name |-> "Ada", email |-> "ada@example.com", password |-> "wolf123"],
      [name |-> "Bob", email |-> "bob@example.com", password |-> "wolf123"] }

NextWatchlist ==
    \/ \E t \in Sequential, payload \in WatchlistSignups : SignupFind(t, payload)
    \/ \E t \in Sequential : SignupCreate(t)
    \/ \E t \in Sequential : SignupIssue(t)
    \/ \E t \in Sequential, h \in WellFormedHeaders : GetWatchlistStart(t, h)
    \/ \E t \in Sequential, h \in WellFormedHeaders, item \in WatchlistCreates :
          AddWatchlistStart(t, h, item)
    \/ \E t \in Sequential, h \in WellFormedHeaders, item_id \in ItemIds :
          DeleteWatchlistStart(t, h, item_id)
    \/ \E t \in Sequential : RequireAuthUser(t)
    \/ \E t \in Sequential : get_watchlist(t)
    \/ \E t \in Sequential : add_watchlist(t)
    \/ \E t \in Sequential : delete_watchlist(t)

SpecWatchlist == Init /\ [][NextWatchlist]_vars

\* ------------------------------------------------------------- claims

\* a step that answers a request at its first store access
Rejected == response' # NoResponse /\ thread' = thread

StoredEmails == {user[i].email : i \in 1..Len(user)}

\* C1 (as claimed): in every reachable state no two user records have the
\* same email, whatever the interleaving of the signups' store steps.
C1_EmailUnique ==
    \A i, j \in 1..Len(user) : user[i].email = user[j].email => i = j

\* C2: a signup whose email no stored user has goes on to create the user and
\* ends with 200, a token and the view {id, name, email} of the user it
\* created; a signup that starts after a signup with the same email has
\* completed is answered 400 'Email already registered', whatever its name
\* and password.
C2_SignupOutcome ==
    [][\A t \in Threads :
          /\ \A p \in SignupRequests :
                SignupFind(t, p) =>
                   /\ p.email \in signedUp =>
                         /\ Rejected
                         /\ response'.op = "signup" /\ response'.req = p
                         /\ response'.result =
                               [status |-> 400, detail |-> "Email already registered"]
                   /\ p.email \notin StoredEmails =>
                         /\ thread'[t].pc = "signup_create"
                         /\ thread'[t].req = p
          /\ (thread[t].pc = "signup_create" /\ thread'[t] # thread[t]) =>
                thread'[t].pc = "signup_issue"
          /\ (thread[t].pc = "signup_issue" /\ thread'[t] # thread[t]) =>
                /\ response'.op = "signup" /\ response'.req = thread[t].req
                /\ response'.result.status = 200
                /\ DOMAIN response'.result.body = {"token", "user"}
                /\ response'.result.body.token \in Tokens
                /\ \E i \in 1..Len(user) :
                      /\ user[i].email = thread[t].req.email
                      /\ user[i].name = thread[t].req.name
                      /\ response'.result.body.user =
                            [id |-> [fmt |-> "hex24", val |-> user[i]._id.oid],
                             name |-> thread[t].req.name,
                             email |-> thread[t].req.email]
      ]_vars

\* C2's case: Eve's signup with Ada's email, after Ada's signup completed, is
\* answered 400.
C2_Witness ==
    /\ response.op = "signup"
    /\ response.result.status = 400
    /\ response.req.name = "Eve"
    /\ response.req.email \in signedUp
    /\ \E i \in 1..Len(user) : user[i].name = "Ada" /\ user[i].email = response.req.email

\* C3 (as claimed): login succeeds if and only if some stored user has the
\* email and hash_password(password) as its hashed_password; otherwise it is
\* answered 401 'Invalid credentials', the same for an unknown email and for a
\* wrong password.
C3_LoginIff ==
    [][\A t \in Threads, p \in LoginRequests :
          LoginFind(t, p) =>
             IF \E i \in 1..Len(user) :
                   /\ user[i].email = p.email
                   /\ user[i].hashed_password = hash_password(p.password)
             THEN thread'[t].pc = "login_issue"
             ELSE /\ Rejected
                  /\ response'.result =
                        [status |-> 401, detail |-> "Invalid credentials"]
      ]_vars

\* C4 (as claimed): /me with 'Bearer <token>', for the token of any session
\* signup or login has stored, answers 200 with the id of the user that
\* session was issued to, at every later point.
C4_TokenResolves ==
    \A i \in 1..Len(session) :
        (/\ response.op = "me"
         /\ response.req.authorization =
               [present |-> TRUE, value |-> <<"Bearer", " ">> \o session[i].token])
        => /\ response.result.status = 200
           /\ response.result.body.id = session[i].user_id

\* C6 (as claimed): in every reachable state no two session records have the
\* same token.
C6_TokenUnique ==
    \A i, j \in 1..Len(session) : session[i].token = session[j].token => i = j

ProtectedOps ==
    {"me", "analyze", "get_watchlist", "add_watchlist", "delete_watchlist", "chat"}

\* the header is absent, empty or does not start with 'Bearer '
C5_Malformed(h) ==
    \/ ~h.present
    \/ Len(h.value) < 2
    \/ h.value[1] # "Bearer"
    \/ h.value[2] # " "

\* the text after the first space of a header that starts with 'Bearer '
C5_TokenOf(h) == [k \in 1..(Len(h.value) - 2) |-> h.value[k + 2]]

\* C5: a protected request whose header is absent, empty or does not start
\* with 'Bearer ' is answered 401 'Missing token' without a lookup in the
\* session store; one whose header starts with 'Bearer ' and whose token no
\* stored session has is answered 401 'Invalid token'; neither changes a
\* collection.  Only a request whose header is well formed and whose token a
\* session has passes the guard, and only a request that passed the guard
\* runs an operation's body: changes the watchlist or the chat collection, or
\* sends anything but a 401.
C5_GuardFails ==
    [][/\ (Rejected /\ response'.op \in ProtectedOps) =>
             /\ IF C5_Malformed(response'.req.authorization)
                THEN /\ response'.result = [status |-> 401, detail |-> "Missing token"]
                     /\ response'.lookups = 0
                ELSE /\ response'.result = [status |-> 401, detail |-> "Invalid token"]
                     /\ \A i \in 1..Len(session) :
                           session[i].token # C5_TokenOf(response'.req.authorization)
             /\ UNCHANGED <<user, session, watchlistitem, chatmessage>>
       /\ \A t \in Threads :
             /\ (/\ thread[t].pc = "idle" /\ thread'[t].pc # "idle"
                 /\ thread'[t].op \in ProtectedOps) =>
                   /\ thread'[t].pc = "auth_user"
                   /\ ~C5_Malformed(thread'[t].req.authorization)
                   /\ \E i \in 1..Len(session) :
                         /\ session[i].token = C5_TokenOf(thread'[t].req.authorization)
                         /\ thread'[t].session = session[i]
             /\ (thread'[t].pc \in {"body", "chat_reply"} /\ thread'[t] # thread[t]) =>
                   \/ thread[t].pc = "auth_user" /\ thread'[t].pc = "body"
                   \/ thread[t].pc = "body" /\ thread'[t].pc = "chat_reply"
       /\ (\/ watchlistitem' # watchlistitem
           \/ chatmessage' # chatmessage
           \/ response'.op \in ProtectedOps /\ response'.result.status # 401) =>
             \E t \in Threads :
                /\ thread[t].pc \in {"body", "chat_reply"}
                /\ thread'[t] # thread[t]
      ]_vars

\* C5's case: the bare token of a stored session, without the scheme, is
\* answered 'Missing token'.
C5_Witness ==
    /\ response.op \in ProtectedOps
    /\ response.result = [status |-> 401, detail |-> "Missing token"]
    /\ response.req.authorization.present
    /\ \E i \in 1..Len(session) : session[i].token = response.req.authorization.value

Digests == {hash_password("wolf123"), hash_password("wrong")}
Secrets == Digests \cup {"wolf123", "wrong"}

\* C7: a failed signup, login or /me carries a status and a detail only; a
\* successful signup or login carries a token and a user view with exactly
\* id, name and email; a successful /me carries exactly id, name, email and
\* plan; and no text of any of them is a credential digest or a password.
C7_NoDigest ==
    response.op \in {"signup", "login", "me"} =>
       IF response.result.status # 200
       THEN /\ DOMAIN response.result = {"status", "detail"}
            /\ response.result.detail \notin Secrets
       ELSE IF response.op = "me"
       THEN /\ DOMAIN response.result.body = {"id", "name", "email", "plan"}
            /\ response.result.body.name \notin Secrets
            /\ response.result.body.email \notin Secrets
            /\ response.result.body.plan \notin Secrets
       ELSE /\ DOMAIN response.result.body = {"token", "user"}
            /\ DOMAIN response.result.body.user = {"id", "name", "email"}
            /\ response.result.body.user.name \notin Secrets
            /\ response.result.body.user.email \notin Secrets

\* C7's case: a login has succeeded for a user whose digest is stored.
C7_Witness ==
    /\ response.op = "login"
    /\ response.result.status = 200
    /\ \E i \in 1..Len(user) :
          /\ user[i].email = response.result.body.user.email
          /\ user[i].hashed_password \in Digests

\* C8 (as claimed): every stored session has expires_at = created_at + 7 days
\* exactly, and its user_id is the id of a stored user.
C8_Expiry ==
    \A i \in 1..Len(session) :
        /\ session[i].expires_at = session[i].created_at + SevenDays
        /\ \E k \in 1..Len(user) :
              session[i].user_id = [fmt |-> "hex24", val |-> user[k]._id.oid]

\* what a request has written so far
WroteBy(th) == IF "wrote" \in DOMAIN th THEN th.wrote ELSE NoWrites

\* C9: a request answered at its first step (a rejected signup or login, a
\* failed guard) leaves the user and session collections as they were; no
\* step of a guarded request writes to them; the documents a step adds are
\* the ones the request counts; a successful signup has added exactly one
\* user and one session, a successful login exactly one session and no user.
C9_Writes ==
    [][/\ Rejected => UNCHANGED <<user, session>>
       /\ thread' = thread => UNCHANGED <<user, session>>
       /\ \A t \in Threads :
             thread'[t] # thread[t] =>
                LET before == WroteBy(thread[t])
                    after == IF thread'[t].pc = "idle" THEN response'.wrote
                             ELSE WroteBy(thread'[t])
                IN /\ Len(user') = Len(user) + (after.users - before.users)
                   /\ Len(session') = Len(session) + (after.sessions - before.sessions)
                   /\ SubSeq(user', 1, Len(user)) = user
                   /\ SubSeq(session', 1, Len(session)) = session
                   /\ \/ thread[t].pc \in {"auth_user", "body"}
                      \/ thread'[t].pc = "auth_user"
                      => UNCHANGED <<user, session>>
       /\ response'.op \in ProtectedOps => response'.wrote = NoWrites
       /\ (response'.op = "signup" /\ response'.result.status = 200) =>
             response'.wrote = [users |-> 1, sessions |-> 1]
       /\ (response'.op = "login" /\ response'.result.status = 200) =>
             response'.wrote = [users |-> 0, sessions |-> 1]
       /\ (response'.op \in {"signup", "login"} /\ response'.result.status # 200) =>
             response'.wrote = NoWrites
      ]_vars

\* C9's case: a signup was rejected while a user is stored.
C9_Witness ==
    /\ response.op = "signup"
    /\ response.result.status = 400
    /\ Len(user) >= 1
    /\ response.wrote = NoWrites

\* the views of the items of the collection that user_id owns, in order
C10_Owned(items, user_id) ==
    LET Mine(i) == i.user_id = user_id
        mine == SelectSeq(items, Mine)
    IN [k \in 1..Len(mine) |->
          [id |-> [fmt |-> "hex24", val |-> mine[k]._id.oid],
           symbol |-> mine[k].symbol, note |-> mine[k].note]]

\* C10 (as claimed): GET /watchlist returns exactly the caller's items;
\* DELETE /watchlist/{item_id} removes the item when the caller owns it, and
\* otherwise (no such item, or another user's) answers 404 'Item not found'
\* and leaves the collection unchanged.
C10_Isolation ==
    [][\A t \in Threads :
          LET caller == [fmt |-> "hex24", val |-> thread[t].user._id.oid]
          IN /\ get_watchlist(t) =>
                   response'.result =
                      [status |-> 200, body |-> C10_Owned(watchlistitem, caller)]
             /\ delete_watchlist(t) =>
                   LET hit == {i \in 1..Len(watchlistitem) :
                                 /\ [fmt |-> "hex24", val |-> watchlistitem[i]._id.oid]
                                       = thread[t].req.item_id
                                 /\ watchlistitem[i].user_id = caller}
                   IN IF hit # {}
                      THEN /\ response'.result.status = 200
                           /\ Len(watchlistitem') = Len(watchlistitem) - 1
                           /\ \A i \in 1..Len(watchlistitem) :
                                 i \notin hit =>
                                    \E k \in 1..Len(watchlistitem') :
                                       watchlistitem'[k] = watchlistitem[i]
                      ELSE /\ response'.result =
                                 [status |-> 404, detail |-> "Item not found"]
                           /\ UNCHANGED watchlistitem
      ]_vars

====
